---- MODULE Spec2Model ----
(***************************************************************************)
(* A model of update.py, the batch job that merges the flathub listing,    *)
(* the download statistics and the curated report files (apps.txt,         *)
(* other.txt, wildcard.txt) and derives filter.txt.                        *)
(*                                                                         *)
(* Representation.  A string that the program only compares or copies is a *)
(* TLA+ string.  A string that the program takes apart is a sequence:      *)
(*   - a component id is the sequence of its "/"-separated segments        *)
(*     (id.split("/")), and a segment is a sequence of one-character       *)
(*     strings, so that lower(), the code-point order of str and the       *)
(*     wildcard regular expression can be computed;                        *)
(*   - the value of a curated field is a record [wc, text]: wc is NoId for *)
(*     a plain text and the wildcard id w for the string "[w] text"        *)
(*     built by _merge_field;                                              *)
(*   - a dict is a sequence of records with distinct ids, in insertion     *)
(*     order (Python dicts iterate in insertion order).                    *)
(***************************************************************************)
EXTENDS Integers, Sequences, FiniteSets, TLC

VARIABLES
    remote_ls,              \* flathub listing: sequence of [id, runtime]
    fedora_ls,              \* set of ids listed by the fedora registry
    stats,                  \* statistics server: day -> ref -> arch -> counters
    clock,                  \* [first, second]: the two readings of datetime.now()
    input_dir,              \* [given, apps, other, wildcard]: files as line sequences
    delta_from_dir,         \* same shape; given = FALSE when the option is absent
    delta_to_dir,           \* same shape
    fs,                     \* the files of the output directory
    pc,                     \* position in update_report
    flathub_components,     \* dict of the components of the primary remote
    flathub_totals,         \* totals by id
    wildcards,              \* dict of wildcard components
    filters,                \* list of the components to allow
    input_components,       \* dict loaded from input_dir
    delta_from_components,  \* dict loaded from delta_from_dir
    delta_to_components,    \* dict loaded from delta_to_dir
    order,                  \* ids of flathub_components in processing order
    idx,                    \* index in order of the component being processed
    app_rank,
    other_rank,
    open_files,             \* names of the files currently open for writing
    warnings,               \* set of warnings printed so far
    err,                    \* the fatal error, once pc = "error"
    cache,                  \* days whose flathub-downloads-<day>.json is cached
    stats_read              \* days passed to get_flathub_stats, in call order

vars == <<remote_ls, fedora_ls, stats, clock, input_dir, delta_from_dir, delta_to_dir,
          fs, pc, flathub_components, flathub_totals, wildcards, filters,
          input_components, delta_from_components, delta_to_components,
          order, idx, app_rank, other_rank, open_files, warnings, err,
          cache, stats_read>>

inputs == <<remote_ls, fedora_ls, stats, clock, input_dir, delta_from_dir, delta_to_dir>>

----------------------------------------------------------------------------
(* Bounds of the explored inputs. *)

MaxLines == 4       \* lines of the curated file under test
MaxWild == 2        \* wildcard sections in wildcard.txt
MaxComps == 3       \* components in the flathub listing
MaxCount == 1       \* largest download total
TicksPerDay == 2    \* instants of a calendar day at which the clock is read

----------------------------------------------------------------------------
(* Strings taken apart by the program. *)

\* ord(c) for the characters used in ids
Ord(c) ==
    CASE c = "*" -> 42 [] c = "." -> 46 [] c = "1" -> 49 [] c = "2" -> 50
      [] c = "A" -> 65 [] c = "B" -> 66 [] c = "P" -> 80
      [] c = "a" -> 97 [] c = "b" -> 98 [] c = "p" -> 112

\* str.lower() on one character
LowerChar(c) ==
    CASE c = "A" -> "a" [] c = "B" -> "b" [] c = "P" -> "p" [] OTHER -> c

LowerStr(s) == [j \in 1..Len(s) |-> LowerChar(s[j])]

\* s < t for two str (code-point lexicographic order)
StrLess(s, t) ==
    \E k \in 1..(Len(s) + 1) :
        /\ \A j \in 1..(k - 1) : j <= Len(t) /\ s[j] = t[j]
        /\ k <= Len(t)
        /\ (k = Len(s) + 1 \/ Ord(s[k]) < Ord(t[k]))

\* a < b for two tuples of str
TupleLess(a, b) ==
    \E k \in 1..(Len(a) + 1) :
        /\ \A j \in 1..(k - 1) : j <= Len(b) /\ a[j] = b[j]
        /\ k <= Len(b)
        /\ (k = Len(a) + 1 \/ StrLess(a[k], b[k]))

NoId == << >>

\* Component.sort_key
sort_key(id) == [i \in 1..Len(id) |-> LowerStr(id[i])]

\* "/" in component.id
HasSlash(id) == Len(id) > 1

\* a ref that keeps no place for the architecture
filter_ref_no_arch(id) ==
    IF Len(id) = 1
        THEN <<id[1]>>
        ELSE <<(<<"r", "u", "n", "t", "i", "m", "e">>), id[1], id[2]>>

\* Component.filter_ref, as the sequence of the "/"-separated parts of the ref
filter_ref(id) ==
    IF Len(id) = 1
        THEN <<id[1]>>
        ELSE <<(<<"r", "u", "n", "t", "i", "m", "e">>), id[1], (<<"*">>), id[2]>>

\* one segment of WildcardComponent.regex against one segment of an id:
\* "*" is [^/]*, every other character is escaped and matches itself
RECURSIVE GlobMatch(_, _)
GlobMatch(p, s) ==
    IF p = << >> THEN s = << >>
    ELSE IF Head(p) = "*"
        THEN GlobMatch(Tail(p), s) \/ (s # << >> /\ GlobMatch(p, Tail(s)))
        ELSE s # << >> /\ Head(s) = Head(p) /\ GlobMatch(Tail(p), Tail(s))

\* WildcardComponent.matches: "^" + "/".join(parts) + "$" against component.id
matches(wid, id) ==
    /\ Len(wid) = Len(id)
    /\ \A i \in 1..Len(wid) : GlobMatch(wid[i], id[i])

----------------------------------------------------------------------------
(* Field values. *)

Plain(s) == [wc |-> NoId, text |-> s]

\* f"[{other.id}] {new}"
Tagged(wid, v) == [wc |-> wid, text |-> v.text]

Empty == Plain("")

Yes == Plain("yes")

\* truth value of a str: non-empty
Truthy(v) == v.wc # NoId \/ v.text # ""

\* value.startswith("[")
StartsWithBracket(v) == v.wc # NoId

\* str.lower() on the include values of the explored files
LowerWord(s) ==
    CASE s = "Yes" -> "yes" [] s = "NO" -> "no" [] s = "Maybe" -> "maybe" [] OTHER -> s

----------------------------------------------------------------------------
(* Components and dicts. *)

\* Component.__init__ for a component read from a curated file
CuratedComponent(id, wildcard) ==
    [id |-> id, wild |-> wildcard, comments |-> Empty, include |-> Empty]

\* None, where the code holds an Optional[Component]
NoComponent == CuratedComponent(NoId, FALSE)

\* Component.__init__ for a line of the remote listing
RemoteComponent(id, runtime) ==
    [id |-> id, runtime |-> runtime, download_count |-> 0, download_rank |-> 0,
     fedora_flatpak |-> FALSE, comments |-> Empty, include |-> Empty]

load_fields == <<"comments", "include">>

Fields == {"name", "homepage", "license", "runtime", "downloads",
           "fedora_flatpak", "comments", "include"}

Keys(d) == {d[i].id : i \in DOMAIN d}

IndexOf(d, id) ==
    IF id \in Keys(d) THEN CHOOSE i \in DOMAIN d : d[i].id = id ELSE 0

\* d.get(id) for a dict of curated components
DictGet(d, id) == IF id \in Keys(d) THEN d[IndexOf(d, id)] ELSE NoComponent

\* d.setdefault(c.id, c): an existing key keeps its value
DictSet_keep_first(d, c) ==
    IF c.id \in {d[i].id : i \in DOMAIN d} THEN d ELSE Append(d, c)

\* d[c.id] = c: an existing key keeps its position and takes the new value
DictSet(d, c) ==
    IF c.id \in Keys(d)
        THEN [i \in DOMAIN d |-> IF d[i].id = c.id THEN c ELSE d[i]]
        ELSE Append(d, c)

----------------------------------------------------------------------------
(* sorted(): a stable sort by the key (n, k), n an integer and k a tuple   *)
(* of str.  The entries are records [n, k, v].                             *)

KeyLess(x, y) == x.n < y.n \/ (x.n = y.n /\ TupleLess(x.k, y.k))

RECURSIVE InsertSorted(_, _)
InsertSorted(s, e) ==
    IF s = << >> THEN <<e>>
    ELSE IF KeyLess(e, Head(s)) THEN <<e>> \o s
    ELSE <<Head(s)>> \o InsertSorted(Tail(s), e)

RECURSIVE StableSort(_)
StableSort(s) ==
    IF s = << >> THEN << >>
    ELSE InsertSorted(StableSort(SubSeq(s, 1, Len(s) - 1)), s[Len(s)])

Values(s) == [i \in DOMAIN s |-> s[i].v]

----------------------------------------------------------------------------
(* Warnings and fatal errors. *)

\* warning(f"{self.id}: matched by wildcard {other.id}, but {field_name} ...")
WildcardWarning(id, wid, field_name) ==
    [kind |-> "explicitly specified", id |-> id, other |-> wid, field |-> field_name]

\* warning(f"{component.id}: required runtime '{component.runtime}' not included")
RuntimeWarning(id, runtime) ==
    [kind |-> "runtime not included", id |-> id, other |-> runtime, field |-> ""]

NoError == [kind |-> "", dir |-> "", file |-> "", line_no |-> 0]

----------------------------------------------------------------------------
(* Component.merge *)

\* a merge that overlays without looking at base
merge_field_ignores_base(self, base, other, field_name) ==
    LET new == other[field_name] IN
    IF other.wild
        THEN IF Truthy(self[field_name])
            THEN [self |-> self,
                  warn |-> {WildcardWarning(self.id, other.id, field_name)}]
            ELSE IF Truthy(new)
                THEN [self |-> [self EXCEPT ![field_name] = Tagged(other.id, new)],
                      warn |-> {}]
                ELSE [self |-> self, warn |-> {}]
        ELSE [self |-> [self EXCEPT ![field_name] = new], warn |-> {}]

\* a merge in which a wildcard overwrites an explicit value
merge_field_wildcard_clobbers(self, base, other, field_name) ==
    LET new == other[field_name] IN
    IF base.id = NoId \/ new # base[field_name]
        THEN IF other.wild
            THEN IF Truthy(new)
                THEN [self |-> [self EXCEPT ![field_name] = Tagged(other.id, new)],
                      warn |-> {}]
                ELSE [self |-> self, warn |-> {}]
            ELSE [self |-> [self EXCEPT ![field_name] = new], warn |-> {}]
        ELSE [self |-> self, warn |-> {}]

merge_field(self, base, other, field_name) ==
    LET new == other[field_name] IN
    IF base.id = NoId \/ new # base[field_name]
        THEN IF other.wild
            THEN IF Truthy(self[field_name])
                THEN [self |-> self,
                      warn |-> {WildcardWarning(self.id, other.id, field_name)}]
                ELSE IF Truthy(new)
                    THEN [self |-> [self EXCEPT ![field_name] = Tagged(other.id, new)],
                          warn |-> {}]
                    ELSE [self |-> self, warn |-> {}]
            ELSE [self |-> [self EXCEPT ![field_name] = new], warn |-> {}]
        ELSE [self |-> self, warn |-> {}]

merge(self, base, other) ==
    LET r1 == merge_field(self, base, other, load_fields[1])
        r2 == merge_field(r1.self, base, other, load_fields[2])
    IN  [self |-> r2.self, warn |-> r1.warn \cup r2.warn]

----------------------------------------------------------------------------
(* The parser of the curated files.  A file is the sequence of its lines;  *)
(* a line is [kind, id, label, value] with kind "blank", "section" (the    *)
(* line "[id]") or "field" (the line "label: value").  A file that does    *)
(* not exist is read as the empty sequence: add_components_from_path       *)
(* returns at once for it, and adds nothing for a file without lines.      *)

BlankLine == [kind |-> "blank", id |-> NoId, label |-> "", value |-> Empty]

SectionLine(id) == [kind |-> "section", id |-> id, label |-> "", value |-> Empty]

FieldLine(label, value) == [kind |-> "field", id |-> NoId, label |-> label, value |-> value]

\* re.sub(r"\s*\([^)]*\)\s*", " ", raw).strip().lower().replace(" ", "_")
\* on the labels of the explored files
NormLabel(raw) ==
    CASE raw = "Comments" -> "comments"
      [] raw = "Include" -> "include"
      [] raw = "INCLUDE" -> "include"
      [] raw = "Name" -> "name"
      [] raw = "Downloads (new last month)" -> "downloads"
      [] raw = "Fedora Flatpak" -> "fedora_flatpak"
      [] raw = "Rating (stars)" -> "rating"
      [] raw = "Bogus" -> "bogus"

\* the value stored for a field line: lines 327-334
FieldValue(field_name, raw) ==
    LET stripped == IF StartsWithBracket(raw) THEN Empty ELSE raw
    IN  IF field_name = "include" THEN Plain(LowerWord(stripped.text)) ELSE stripped

ParseError(kind, line_no) == [error |-> kind, line_no |-> line_no, components |-> << >>]

\* components[component.id] = component, if component
Register(components, component) ==
    IF component.id # NoId THEN DictSet(components, component) ELSE components

\* the loop of add_components_from_path from line line_no on, and the
\* registration of the last component after it
RECURSIVE parse_lines(_, _, _, _, _)
parse_lines(lines, line_no, components, component, wildcard) ==
    IF line_no > Len(lines)
        THEN [error |-> "", line_no |-> 0, components |-> Register(components, component)]
    ELSE LET line == lines[line_no]
             field_name == NormLabel(line.label)
             value == FieldValue(field_name, line.value)
         IN
         CASE line.kind = "blank" ->
                parse_lines(lines, line_no + 1, components, component, wildcard)
           [] line.kind = "section" ->
                parse_lines(lines, line_no + 1, Register(components, component),
                            CuratedComponent(line.id, wildcard), wildcard)
           [] line.kind = "field" ->
                IF component.id = NoId
                    THEN ParseError("Text before first component", line_no)
                ELSE IF field_name \notin Fields
                    THEN ParseError("unknown key", line_no)
                ELSE IF field_name = "include" /\ value.text \notin {"", "yes", "no"}
                    THEN ParseError("include should be 'yes' or 'no'", line_no)
                ELSE parse_lines(lines, line_no + 1, components,
                                 IF field_name \in {load_fields[1], load_fields[2]}
                                     THEN [component EXCEPT ![field_name] = value]
                                     ELSE component,
                                 wildcard)

add_components_from_path(components, lines, wildcard) ==
    parse_lines(lines, 1, components, NoComponent, wildcard)

Loaded(r, dir, file) ==
    [components |-> r.components,
     err |-> IF r.error = "" THEN NoError
             ELSE [kind |-> r.error, dir |-> dir, file |-> file, line_no |-> r.line_no]]

\* load_components(directory); dir_name names the directory in the error
load_components(dir, dir_name) ==
    LET apps == add_components_from_path(<< >>, dir.apps, FALSE) IN
    IF apps.error # "" THEN Loaded(apps, dir_name, "apps.txt")
    ELSE Loaded(add_components_from_path(apps.components, dir.other, FALSE),
                dir_name, "other.txt")

load_wildcards(dir, dir_name) ==
    Loaded(add_components_from_path(<< >>, dir.wildcard, TRUE), dir_name, "wildcard.txt")

\* the loop of get_updated_wildcards over delta_to_wildcards.items(), from item i on
RECURSIVE replay_wildcards(_, _, _, _)
replay_wildcards(ws, delta_from_wildcards, delta_to_wildcards, i) ==
    IF i > Len(delta_to_wildcards) THEN ws
    ELSE LET to_component == delta_to_wildcards[i]
             from_component == DictGet(delta_from_wildcards, to_component.id)
             component == DictGet(ws, to_component.id)
             no_from == from_component.id = NoId
             updated ==
                 [component EXCEPT
                    !.comments = IF no_from \/ to_component.comments # from_component.comments
                                     THEN to_component.comments ELSE @,
                    !.include = IF no_from \/ to_component.include # from_component.include
                                    THEN to_component.include ELSE @]
         IN  replay_wildcards(
                 IF component.id # NoId THEN DictSet(ws, updated)
                                        ELSE DictSet(ws, to_component),
                 delta_from_wildcards, delta_to_wildcards, i + 1)

\* get_updated_wildcards(input_dir, delta_from_dir, delta_to_dir)
get_updated_wildcards(in_dir, from_dir, to_dir) ==
    LET current == load_wildcards(in_dir, "input") IN
    IF current.err # NoError \/ ~(from_dir.given /\ to_dir.given) THEN current
    ELSE LET from == load_wildcards(from_dir, "delta_from") IN
         IF from.err # NoError THEN from
         ELSE LET to == load_wildcards(to_dir, "delta_to") IN
              IF to.err # NoError THEN to
              ELSE [components |-> replay_wildcards(current.components, from.components,
                                                    to.components, 1),
                    err |-> NoError]

----------------------------------------------------------------------------
(* The output directory.  A file is [exists, by_run, data]: by_run tells   *)
(* that this run created, wrote or removed the file; data is the sequence  *)
(* of the blocks (report files) or of the lines (filter.txt) written.      *)

FinalFiles == {"apps.txt", "other.txt", "filter.txt", "wildcard.txt"}

NewFiles == {"apps.txt.new", "other.txt.new", "filter.txt.new", "wildcard.txt.new"}

OutputFiles == FinalFiles \cup NewFiles

Absent == [exists |-> FALSE, by_run |-> FALSE, data |-> << >>]

\* a file left by an earlier run
Old == [exists |-> TRUE, by_run |-> FALSE, data |-> << >>]

\* open(path, "w"), the writes and the close
Written(data) == [exists |-> TRUE, by_run |-> TRUE, data |-> data]

\* output_dir / (name + ".new")
NewOf(name) ==
    CASE name = "apps.txt" -> "apps.txt.new"
      [] name = "other.txt" -> "other.txt.new"
      [] name = "filter.txt" -> "filter.txt.new"
      [] name = "wildcard.txt" -> "wildcard.txt.new"

\* os.rename(src, dst) in the directory d
Rename(d, src, dst) ==
    [d EXCEPT ![dst] = d[src],
              ![src] = [exists |-> FALSE, by_run |-> TRUE, data |-> << >>]]

\* the header of filter.txt, lines 472-478
FilterHeader ==
    << [verb |-> "#", ref |-> << >>], [verb |-> "#", ref |-> << >>],
       [verb |-> "#", ref |-> << >>], [verb |-> "#", ref |-> << >>],
       [verb |-> "deny", ref |-> << <<"*">> >>] >>

\* "allow " + filt.filter_ref + "\n"
AllowLine(id) == [verb |-> "allow", ref |-> filter_ref(id)]

\* WildcardComponent.dump: the header and the load_fields
WildcardBlock(w) == [id |-> w.id, comments |-> w.comments, include |-> w.include]

----------------------------------------------------------------------------
(* update_report, step by step. *)

Fatal(e) ==
    /\ pc' = "error"
    /\ err' = e

\* flathub_totals[component.id] on the defaultdict
TotalOf(totals, id) == IF id \in DOMAIN totals THEN totals[id] ELSE 0

\* load_components_from_remote_ls: components[component.id] = component per line
RECURSIVE load_components_from_remote_ls(_, _, _)
load_components_from_remote_ls(components, listing, i) ==
    IF i > Len(listing) THEN components
    ELSE load_components_from_remote_ls(
             DictSet(components, RemoteComponent(listing[i].id, listing[i].runtime)),
             listing, i + 1)

\* lines 404-410: both remotes are loaded, then fedora_flatpak is set
LoadAllRemoteComponents ==
    /\ pc = "load_remote"
    /\ \/ /\ flathub_components' =
                LET loaded == load_components_from_remote_ls(<< >>, remote_ls, 1)
                IN  [i \in DOMAIN loaded |->
                        [loaded[i] EXCEPT !.fedora_flatpak = loaded[i].id \in fedora_ls]]
          /\ pc' = "totals"
          /\ UNCHANGED err
       \/ \* download_remote_data: the download script fails
          /\ Fatal([NoError EXCEPT !.kind = "Failed to download data"])
          /\ UNCHANGED flathub_components
    /\ UNCHANGED <<inputs, cache, stats_read, fs, flathub_totals, wildcards, filters, input_components,
                   delta_from_components, delta_to_components, order, idx,
                   app_rank, other_rank, open_files, warnings>>

\* timedelta(days=n), and the calendar day (year, month, day) of a datetime
Days(n) == n * TicksPerDay
DayOf(t) == t \div TicksPerDay

WindowDays == 30
EndDays == 1

\* lines 280-282: the days of the dates the loop passes to get_flathub_stats
RECURSIVE stats_loop(_, _)
stats_loop(date, now) ==
    IF date < now THEN <<DayOf(date)>> \o stats_loop(date + Days(1), now) ELSE << >>

\* lines 284-288 for one ref of one snapshot: counts[0] - counts[1] over the
\* architectures (counts is 0-based in the source, 1-based here)
RECURSIVE SumArchs(_, _)
SumArchs(refdata, archs) ==
    IF archs = {} THEN 0
    ELSE LET arch == CHOOSE a \in archs : TRUE
         IN  (refdata[arch][1] - refdata[arch][2]) + SumArchs(refdata, archs \ {arch})

\* totals[ref] after the snapshots of the days have been added in turn
RECURSIVE SumDays(_, _, _)
SumDays(snapshots, days, ref) ==
    IF days = << >> THEN 0
    ELSE LET refs == snapshots[Head(days)]
         IN  (IF ref \in DOMAIN refs THEN SumArchs(refs[ref], DOMAIN refs[ref]) ELSE 0)
             + SumDays(snapshots, Tail(days), ref)

\* get_flathub_totals: the days read and the defaultdict returned
get_flathub_totals(readings, snapshots) ==
    LET now == readings.first - Days(EndDays)
        date == readings.second - Days(WindowDays)
        days == stats_loop(date, now)
        refs == UNION {DOMAIN snapshots[days[i]] : i \in DOMAIN days}
    IN  [read |-> days, totals |-> [ref \in refs |-> SumDays(snapshots, days, ref)]]

\* line 412; get_flathub_stats downloads the days that are not cached and
\* caches them
GetFlathubTotals ==
    /\ pc = "totals"
    /\ LET r == get_flathub_totals(clock, stats)
       IN  \/ /\ flathub_totals' = r.totals
              /\ stats_read' = r.read
              /\ cache' = cache \cup {r.read[i] : i \in DOMAIN r.read}
              /\ pc' = "wildcards"
              /\ UNCHANGED err
           \/ \* get_flathub_stats: response.raise_for_status() raises
              \E k \in DOMAIN r.read :
                 /\ r.read[k] \notin cache
                 /\ Fatal([NoError EXCEPT !.kind = "statistics request failed"])
                 /\ stats_read' = SubSeq(r.read, 1, k)
                 /\ cache' = cache \cup {r.read[i] : i \in 1..(k - 1)}
                 /\ UNCHANGED flathub_totals
    /\ UNCHANGED <<inputs, fs, flathub_components, wildcards, filters, input_components,
                   delta_from_components, delta_to_components, order, idx,
                   app_rank, other_rank, open_files, warnings>>

\* line 414
GetUpdatedWildcards ==
    /\ pc = "wildcards"
    /\ LET r == get_updated_wildcards(input_dir, delta_from_dir, delta_to_dir) IN
       IF r.err # NoError
           THEN Fatal(r.err) /\ UNCHANGED wildcards
           ELSE /\ wildcards' = r.components
                /\ pc' = "write_wildcards"
                /\ UNCHANGED err
    /\ UNCHANGED <<inputs, cache, stats_read, fs, flathub_components, flathub_totals, filters,
                   input_components, delta_from_components, delta_to_components,
                   order, idx, app_rank, other_rank, open_files, warnings>>

\* sorted(wildcards.values(), key=lambda w: w.sort_key)
SortedWildcards(ws) ==
    Values(StableSort([i \in DOMAIN ws |-> [n |-> 0, k |-> sort_key(ws[i].id), v |-> ws[i]]]))

\* a writer that opens the final file instead of the temporary one
WildcardTarget_final == "wildcard.txt"

\* the file write_wildcard_components writes
WildcardTarget == "wildcard.txt.new"

\* line 415, write_wildcard_components.  filters holds the ids of the
\* components appended: the list is only read for sort_key and filter_ref.
WriteWildcardComponents ==
    /\ pc = "write_wildcards"
    /\ LET sorted == SortedWildcards(wildcards) IN
       /\ fs' = [fs EXCEPT ![WildcardTarget] =
                    Written([i \in DOMAIN sorted |-> WildcardBlock(sorted[i])])]
       /\ filters' = LET yes == SelectSeq(sorted, LAMBDA w : w.include = Yes)
                     IN  [i \in DOMAIN yes |-> yes[i].id]
    /\ pc' = "load_components"
    /\ UNCHANGED <<inputs, cache, stats_read, flathub_components, flathub_totals, wildcards,
                   input_components, delta_from_components, delta_to_components,
                   order, idx, app_rank, other_rank, open_files, warnings, err>>

\* "d and load_components(d)": nothing is read for an option that is absent
LoadOptional(dir, dir_name) ==
    IF dir.given THEN load_components(dir, dir_name)
                 ELSE [components |-> << >>, err |-> NoError]

\* the curated components loaded only after the report files are opened
LoadComponents_after_open ==
    /\ pc = "load_components"
    /\ LET current == load_components(input_dir, "input")
           from == LoadOptional(delta_from_dir, "delta_from")
           to == LoadOptional(delta_to_dir, "delta_to")
           failed == IF current.err # NoError THEN current.err
                     ELSE IF from.err # NoError THEN from.err
                     ELSE to.err
       IN  IF failed # NoError
               THEN /\ Fatal(failed)
                    /\ UNCHANGED <<input_components, delta_from_components,
                                   delta_to_components>>
               ELSE /\ input_components' = current.components
                    /\ delta_from_components' = from.components
                    /\ delta_to_components' = to.components
                    /\ pc' = "open_reports"
                    /\ UNCHANGED err
    /\ fs' = [fs EXCEPT !["apps.txt.new"] = [exists |-> TRUE, by_run |-> TRUE, data |-> << >>],
                        !["other.txt.new"] = [exists |-> TRUE, by_run |-> TRUE, data |-> << >>]]
    /\ UNCHANGED <<inputs, cache, stats_read, flathub_components, flathub_totals, wildcards, filters,
                   order, idx, app_rank, other_rank, open_files, warnings>>

\* lines 417-419
LoadComponents ==
    /\ pc = "load_components"
    /\ LET current == load_components(input_dir, "input")
           from == LoadOptional(delta_from_dir, "delta_from")
           to == LoadOptional(delta_to_dir, "delta_to")
           failed == IF current.err # NoError THEN current.err
                     ELSE IF from.err # NoError THEN from.err
                     ELSE to.err
       IN  IF failed # NoError
               THEN /\ Fatal(failed)
                    /\ UNCHANGED <<input_components, delta_from_components,
                                   delta_to_components>>
               ELSE /\ input_components' = current.components
                    /\ delta_from_components' = from.components
                    /\ delta_to_components' = to.components
                    /\ pc' = "open_reports"
                    /\ UNCHANGED err
    /\ UNCHANGED <<inputs, cache, stats_read, fs, flathub_components, flathub_totals, wildcards, filters,
                   order, idx, app_rank, other_rank, open_files, warnings>>

\* a key that ranks the smallest total first
RankKey_ascending(totals, id) ==
    [n |-> TotalOf(totals, id), k |-> sort_key(id), v |-> id]

\* the key of line 427
RankKey(totals, id) == [n |-> 0 - TotalOf(totals, id), k |-> sort_key(id), v |-> id]

\* sorted(flathub_components.values(), key=sort_key), as the ids in order
ProcessingOrder(components, totals) ==
    Values(StableSort([i \in DOMAIN components |-> RankKey(totals, components[i].id)]))

\* lines 421-429: the ranks start at 1, the two report files are opened
OpenReports ==
    /\ pc = "open_reports"
    /\ app_rank' = 1
    /\ other_rank' = 1
    /\ fs' = [fs EXCEPT !["apps.txt.new"] = Written(<< >>),
                        !["other.txt.new"] = Written(<< >>)]
    /\ open_files' = {"apps.txt.new", "other.txt.new"}
    /\ order' = ProcessingOrder(flathub_components, flathub_totals)
    /\ idx' = 1
    /\ pc' = IF flathub_components = << >> THEN "close_reports" ELSE "merge"
    /\ UNCHANGED <<inputs, cache, stats_read, flathub_components, flathub_totals, wildcards, filters,
                   input_components, delta_from_components, delta_to_components,
                   warnings, err>>

\* the component of the current iteration
Current == flathub_components[IndexOf(flathub_components, order[idx])]

SetCurrent(c) ==
    [flathub_components EXCEPT ![IndexOf(flathub_components, order[idx])] = c]

\* lines 432-439 on one component
MergeCuratedInto(component, current, from, to) ==
    LET input_component == DictGet(current, component.id)
        direct == IF input_component.id # NoId
                      THEN merge(component, NoComponent, input_component).self
                      ELSE component
        delta_from_component == DictGet(from, component.id)
        delta_to_component == DictGet(to, component.id)
    IN  IF delta_from_component.id # NoId /\ delta_to_component.id # NoId
            THEN merge(direct, delta_from_component, delta_to_component).self
            ELSE direct

\* lines 430-439
MergeCurated ==
    /\ pc = "merge"
    /\ flathub_components' =
           SetCurrent(MergeCuratedInto(
               [Current EXCEPT !.download_count = TotalOf(flathub_totals, Current.id)],
               input_components, delta_from_components, delta_to_components))
    /\ pc' = "wild"
    /\ UNCHANGED <<inputs, cache, stats_read, fs, flathub_totals, wildcards, filters, input_components,
                   delta_from_components, delta_to_components, order, idx,
                   app_rank, other_rank, open_files, warnings, err>>

\* the loop of lines 441-443 from the wildcard i on
RECURSIVE apply_wildcards(_, _, _)
apply_wildcards(component, ws, i) ==
    IF i > Len(ws) THEN [self |-> component, warn |-> {}]
    ELSE LET r == IF matches(ws[i].id, component.id)
                      THEN merge(component, NoComponent, ws[i])
                      ELSE [self |-> component, warn |-> {}]
             rest == apply_wildcards(r.self, ws, i + 1)
         IN  [self |-> rest.self, warn |-> r.warn \cup rest.warn]

\* lines 441-443
ApplyWildcards ==
    /\ pc = "wild"
    /\ LET r == apply_wildcards(Current, wildcards, 1) IN
       /\ flathub_components' = SetCurrent(r.self)
       /\ warnings' = warnings \cup r.warn
    /\ pc' = "dump"
    /\ UNCHANGED <<inputs, cache, stats_read, fs, flathub_totals, wildcards, filters, input_components,
                   delta_from_components, delta_to_components, order, idx,
                   app_rank, other_rank, open_files, err>>

\* lines 463-467: the warning about the runtime of an included component
RuntimeCheck(component, components) ==
    IF component.runtime # NoId
       /\ (component.runtime \notin Keys(components)
           \/ components[IndexOf(components, component.runtime)].include # Yes)
        THEN {RuntimeWarning(component.id, component.runtime)}
        ELSE {}

\* lines 445-469
DumpComponent ==
    /\ pc = "dump"
    /\ LET is_app == ~HasSlash(Current.id)
           ranked == [Current EXCEPT !.download_rank = IF is_app THEN app_rank ELSE other_rank]
           target == IF is_app THEN "apps.txt.new" ELSE "other.txt.new"
           components == SetCurrent(ranked)
       IN  /\ flathub_components' = components
           /\ fs' = [fs EXCEPT ![target].data = Append(@, ranked)]
           /\ app_rank' = IF is_app THEN app_rank + 1 ELSE app_rank
           /\ other_rank' = IF is_app THEN other_rank ELSE other_rank + 1
           /\ IF ranked.include = Yes
                  THEN /\ warnings' = warnings \cup RuntimeCheck(ranked, components)
                       /\ filters' = Append(filters, ranked.id)
                  ELSE UNCHANGED <<warnings, filters>>
    /\ idx' = idx + 1
    /\ pc' = IF idx = Len(order) THEN "close_reports" ELSE "merge"
    /\ UNCHANGED <<inputs, cache, stats_read, flathub_totals, wildcards, input_components,
                   delta_from_components, delta_to_components, order, open_files, err>>

\* the end of the with block of line 423
CloseReports ==
    /\ pc = "close_reports"
    /\ open_files' = {}
    /\ pc' = "write_filter"
    /\ UNCHANGED <<inputs, cache, stats_read, fs, flathub_components, flathub_totals, wildcards, filters,
                   input_components, delta_from_components, delta_to_components,
                   order, idx, app_rank, other_rank, warnings, err>>

\* sorted(filters, key=lambda c: c.sort_key)
SortedFilters(fl) ==
    Values(StableSort([i \in DOMAIN fl |-> [n |-> 0, k |-> sort_key(fl[i]), v |-> fl[i]]]))

\* lines 471-480
WriteFilter ==
    /\ pc = "write_filter"
    /\ LET sorted == SortedFilters(filters) IN
       fs' = [fs EXCEPT !["filter.txt.new"] =
                 Written(FilterHeader \o [i \in DOMAIN sorted |-> AllowLine(sorted[i])])]
    /\ pc' = "rename_apps"
    /\ UNCHANGED <<inputs, cache, stats_read, flathub_components, flathub_totals, wildcards, filters,
                   input_components, delta_from_components, delta_to_components,
                   order, idx, app_rank, other_rank, open_files, warnings, err>>

\* line 482
RenameApps ==
    /\ pc = "rename_apps"
    /\ fs' = Rename(fs, NewOf("apps.txt"), "apps.txt")
    /\ pc' = "rename_other"
    /\ UNCHANGED <<inputs, cache, stats_read, flathub_components, flathub_totals, wildcards, filters,
                   input_components, delta_from_components, delta_to_components,
                   order, idx, app_rank, other_rank, open_files, warnings, err>>

\* line 483
RenameOther ==
    /\ pc = "rename_other"
    /\ fs' = Rename(fs, NewOf("other.txt"), "other.txt")
    /\ pc' = "rename_filter"
    /\ UNCHANGED <<inputs, cache, stats_read, flathub_components, flathub_totals, wildcards, filters,
                   input_components, delta_from_components, delta_to_components,
                   order, idx, app_rank, other_rank, open_files, warnings, err>>

\* line 484
RenameFilter ==
    /\ pc = "rename_filter"
    /\ fs' = Rename(fs, NewOf("filter.txt"), "filter.txt")
    /\ pc' = "rename_wildcard"
    /\ UNCHANGED <<inputs, cache, stats_read, flathub_components, flathub_totals, wildcards, filters,
                   input_components, delta_from_components, delta_to_components,
                   order, idx, app_rank, other_rank, open_files, warnings, err>>

\* line 485
RenameWildcard ==
    /\ pc = "rename_wildcard"
    /\ fs' = Rename(fs, NewOf("wildcard.txt"), "wildcard.txt")
    /\ pc' = "done"
    /\ UNCHANGED <<inputs, cache, stats_read, flathub_components, flathub_totals, wildcards, filters,
                   input_components, delta_from_components, delta_to_components,
                   order, idx, app_rank, other_rank, open_files, warnings, err>>

Next ==
    \/ LoadAllRemoteComponents
    \/ GetFlathubTotals
    \/ GetUpdatedWildcards
    \/ WriteWildcardComponents
    \/ LoadComponents
    \/ OpenReports
    \/ MergeCurated
    \/ ApplyWildcards
    \/ DumpComponent
    \/ CloseReports
    \/ WriteFilter
    \/ RenameApps
    \/ RenameOther
    \/ RenameFilter
    \/ RenameWildcard

----------------------------------------------------------------------------
(* The explored inputs. *)

id_a == << <<"a">> >>

id_A == << <<"A">> >>

id_b == << <<"b">> >>

id_ab == << <<"a", "b">> >>

id_p1 == << <<"p">>, <<"1">> >>

Dir(given, apps, other, wildcard) ==
    [given |-> given, apps |-> apps, other |-> other, wildcard |-> wildcard]

NoDir == Dir(FALSE, << >>, << >>, << >>)

\* the lines a run writes for a curated entry e = [id, comments, include],
\* as far as the loader reads them
Section(e) ==
    << SectionLine(e.id),
       FieldLine("Downloads (new last month)", Plain("5 (rank: 1)")),
       FieldLine("Comments", e.comments),
       FieldLine("Include", e.include) >>

RECURSIVE Sections(_)
Sections(es) == IF es = << >> THEN << >> ELSE Section(Head(es)) \o Sections(Tail(es))

\* a curated entry for id, or none: the empty sequence stands for no entry
Entries(id, comments, includes) ==
    {<< >>} \cup {<<[id |-> id, comments |-> Plain(c), include |-> Plain(i)]>> :
                     c \in comments, i \in includes}

SeqsUpTo(S, n) == UNION {[1..k -> S] : k \in 0..n}

DistinctIds(s) == \A i, j \in DOMAIN s : i # j => s[i].id # s[j].id

InitProgram ==
    /\ pc = "load_remote"
    /\ flathub_components = << >>
    /\ flathub_totals = << >>
    /\ wildcards = << >>
    /\ filters = << >>
    /\ input_components = << >>
    /\ delta_from_components = << >>
    /\ delta_to_components = << >>
    /\ order = << >>
    /\ idx = 0
    /\ app_rank = 0
    /\ other_rank = 0
    /\ open_files = {}
    /\ warnings = {}
    /\ err = NoError
    /\ stats_read = << >>

\* the days for which the statistics server has a snapshot
StatDays == 0..(WindowDays + 2)

\* a snapshot with one architecture that adds totals[ref] to the total of ref
Snapshot(totals) ==
    [ref \in DOMAIN totals |-> [arch \in {"x86_64"} |-> <<totals[ref], 0, 0>>]]

\* statistics that sum to totals: the clock is read twice at midnight of
\* day WindowDays, one day that is read carries the totals and is the only
\* one that is not cached yet
Statistics(totals) ==
    /\ clock = [first |-> Days(WindowDays), second |-> Days(WindowDays)]
    /\ stats = [d \in StatDays |-> IF d = WindowDays - 2 THEN Snapshot(totals) ELSE << >>]
    /\ cache = StatDays \ {WindowDays - 2}

\* the output directory holds the files of an earlier run, and maybe a
\* wildcard.txt.new that an aborted run left behind
InitFs ==
    \E stale \in {Absent, Old} :
        fs = [f \in OutputFiles |->
                 IF f \in FinalFiles THEN Old
                 ELSE IF f = "wildcard.txt.new" THEN stale ELSE Absent]

\* the lines of the curated file under test
LineAlphabet ==
    { SectionLine(id_a), SectionLine(id_b),
      FieldLine("Comments", Plain("x")),
      FieldLine("Comments", Tagged(<< <<"*">> >>, Plain("w"))),
      FieldLine("INCLUDE", Plain("Yes")),
      FieldLine("Bogus", Plain("x")) }

ShortAlphabet ==
    LineAlphabet \cup {BlankLine, FieldLine("Include", Plain("Maybe")),
                       FieldLine("Rating (stars)", Plain("5"))}

GoodWildcardFile == Section([id |-> << <<"*">> >>, comments |-> Plain("w"), include |-> Empty])

\* one curated file varies, the others are well formed
InitFiles ==
    /\ remote_ls = << [id |-> id_a, runtime |-> NoId], [id |-> id_b, runtime |-> NoId] >>
    /\ fedora_ls = {id_a}
    /\ Statistics([id \in {id_a} |-> 1])
    /\ \/ /\ \E lines \in SeqsUpTo(LineAlphabet, MaxLines) :
                input_dir = Dir(TRUE, lines, << >>, GoodWildcardFile)
          /\ delta_from_dir = NoDir
          /\ delta_to_dir = NoDir
       \/ \E lines \in SeqsUpTo(ShortAlphabet, 2) :
            \/ /\ input_dir = Dir(TRUE, Section([id |-> id_a, comments |-> Plain("x"),
                                                 include |-> Yes]), lines, GoodWildcardFile)
               /\ delta_from_dir = NoDir
               /\ delta_to_dir = NoDir
            \/ /\ input_dir = Dir(TRUE, << >>, << >>, lines)
               /\ delta_from_dir = NoDir
               /\ delta_to_dir = NoDir
            \/ /\ input_dir = Dir(TRUE, << >>, << >>, GoodWildcardFile)
               /\ delta_from_dir = Dir(TRUE, lines, << >>, << >>)
               /\ delta_to_dir = Dir(TRUE, << >>, << >>, << >>)
            \/ /\ input_dir = Dir(TRUE, << >>, << >>, GoodWildcardFile)
               /\ delta_from_dir = Dir(TRUE, << >>, << >>, << >>)
               /\ delta_to_dir = Dir(TRUE, << >>, << >>, lines)
            \/ /\ input_dir = Dir(TRUE, << >>, << >>, GoodWildcardFile)
               /\ delta_from_dir = NoDir
               /\ delta_to_dir = Dir(TRUE, << >>, lines, << >>)

Init == InitProgram /\ InitFs /\ InitFiles

Spec == Init /\ [][Next]_vars

----------------------------------------------------------------------------
(* Delta replay: the curated entries of the component a in input_dir, in   *)
(* delta_from_dir and in delta_to_dir vary, and so do the two options.     *)

DeltaEntries == Entries(id_a, {"", "x"}, {"", "yes", "no"})

DeltaInputs ==
    /\ remote_ls = << [id |-> id_a, runtime |-> NoId], [id |-> id_b, runtime |-> NoId] >>
    /\ fedora_ls = {}
    /\ Statistics([id \in {id_a} |-> 1])
    /\ fs = [f \in OutputFiles |-> IF f \in FinalFiles THEN Old ELSE Absent]
    /\ \E current \in DeltaEntries, from \in DeltaEntries, to \in DeltaEntries :
       \E from_given \in BOOLEAN, to_given \in BOOLEAN :
          /\ input_dir = Dir(TRUE, Sections(current), << >>, GoodWildcardFile)
          /\ delta_from_dir = Dir(from_given, Sections(from), << >>, << >>)
          /\ delta_to_dir = Dir(to_given, Sections(to), << >>, << >>)

InitDelta == InitProgram /\ DeltaInputs

SpecDelta == InitDelta /\ [][Next]_vars

----------------------------------------------------------------------------
(* Wildcards: wildcard.txt holds up to MaxWild sections, or one wildcard   *)
(* varies in the three directories.                                        *)

WildcardIds == { << <<"*">> >>, << <<"a", "*">> >>, << <<"a", "b">> >>, << <<"*">>, <<"1">> >> }

WildcardEntries ==
    {[id |-> w, comments |-> Plain(c), include |-> Plain(i)] :
        w \in WildcardIds, c \in {"", "y"}, i \in {"", "yes"}}

WildcardFiles == {s \in SeqsUpTo(WildcardEntries, MaxWild) : DistinctIds(s)}

WildcardDeltaEntries == Entries(<< <<"a", "*">> >>, {"", "y"}, {"", "yes", "no"})

WildInputs ==
    /\ remote_ls = << [id |-> id_ab, runtime |-> NoId], [id |-> id_p1, runtime |-> NoId] >>
    /\ fedora_ls = {}
    /\ Statistics([id \in {id_p1} |-> 1])
    /\ fs = [f \in OutputFiles |-> IF f \in FinalFiles THEN Old ELSE Absent]
    /\ \/ \E ws \in WildcardFiles :
          \E app \in {<< >>} \cup {<<[id |-> id_ab, comments |-> Plain(v[1]), include |-> Plain(v[2])]>> :
                                     v \in {<<"x", "">>, <<"", "yes">>, <<"", "no">>}} :
          \E other \in Entries(id_p1, {""}, {"yes"}) :
             /\ input_dir = Dir(TRUE, Sections(app), Sections(other), Sections(ws))
             /\ delta_from_dir = NoDir
             /\ delta_to_dir = NoDir
       \/ \E current \in WildcardDeltaEntries, from \in WildcardDeltaEntries,
             to \in WildcardDeltaEntries :
             /\ input_dir = Dir(TRUE, << >>, << >>, Sections(current))
             /\ delta_from_dir = Dir(TRUE, << >>, << >>, Sections(from))
             /\ delta_to_dir = Dir(TRUE, << >>, << >>,
                                   Sections(to) \o Section([id |-> << <<"*">>, <<"1">> >>,
                                                            comments |-> Empty, include |-> Yes]))

InitWild == InitProgram /\ WildInputs

SpecWild == InitWild /\ [][Next]_vars

----------------------------------------------------------------------------
(* Ranking: the listing holds up to MaxComps components with totals up to  *)
(* MaxCount; a requires the runtime p/1.                                   *)

ListedIds == {id_a, id_A, id_b, id_p1}

RuntimeOf(id) == IF id = id_a THEN id_p1 ELSE NoId

Listings ==
    {s \in SeqsUpTo({[id |-> id, runtime |-> RuntimeOf(id)] : id \in ListedIds}, MaxComps) :
        DistinctIds(s)}

IncludeYes(id) == [id |-> id, comments |-> Empty, include |-> Yes]

RankInputs ==
    /\ fedora_ls = {id_b}
    /\ fs = [f \in OutputFiles |-> IF f \in FinalFiles THEN Old ELSE Absent]
    /\ delta_from_dir = NoDir
    /\ delta_to_dir = NoDir
    /\ \E listing \in Listings :
          /\ remote_ls = listing
          /\ \E totals \in [Keys(listing) -> 0..MaxCount] : Statistics(totals)
    /\ \E app \in {<< >>, <<IncludeYes(id_a)>>}, other \in {<< >>, <<IncludeYes(id_p1)>>} :
          input_dir = Dir(TRUE, Sections(app \o <<IncludeYes(id_A)>>), Sections(other),
                          << >>)

InitRank == InitProgram /\ RankInputs

SpecRank == InitRank /\ [][Next]_vars

----------------------------------------------------------------------------
(* Statistics window: the two clock readings vary over two days and over   *)
(* the instants of a day, the second one an instant later or not; every    *)
(* day has a snapshot of the component a, and one marked day has a second  *)
(* architecture of a and the only counters of the component b.             *)

Readings ==
    {[first |-> t, second |-> t + e] :
        t \in Days(WindowDays)..(Days(WindowDays + 2) - 1), e \in 0..1}

PlainDay == [ref \in {id_a} |-> [arch \in {"x86_64"} |-> <<3, 1, 0>>]]

MarkedDay ==
    [ref \in {id_a, id_b} |->
        IF ref = id_a THEN [arch \in {"x86_64", "aarch64"} |->
                               IF arch = "x86_64" THEN <<3, 1, 0>> ELSE <<1, 0, 0>>]
        ELSE [arch \in {"x86_64"} |-> <<2, 1, 1>>]]

StatsInputs ==
    /\ remote_ls = << [id |-> id_a, runtime |-> NoId], [id |-> id_b, runtime |-> NoId] >>
    /\ fedora_ls = {}
    /\ fs = [f \in OutputFiles |-> IF f \in FinalFiles THEN Old ELSE Absent]
    /\ input_dir = Dir(TRUE, Sections(<<IncludeYes(id_a)>>), << >>, GoodWildcardFile)
    /\ delta_from_dir = NoDir
    /\ delta_to_dir = NoDir
    /\ clock \in Readings
    /\ \E marked \in StatDays :
          stats = [d \in StatDays |-> IF d = marked THEN MarkedDay ELSE PlainDay]
    /\ cache \in {{}, StatDays}

InitStats == InitProgram /\ StatsInputs

SpecStats == InitStats /\ [][Next]_vars

----------------------------------------------------------------------------
(* Claims about the output files (specification Spec). *)

Max(S) == CHOOSE x \in S : \A y \in S : y <= x

Min(S) == CHOOSE x \in S : \A y \in S : x <= y

\* the file this run wrote for a final name: the final file once renamed,
\* the temporary file before
ThisRun(name) == IF fs[name].by_run THEN fs[name] ELSE fs[NewOf(name)]

AllCompletelyWritten ==
    /\ open_files = {}
    /\ \A g \in FinalFiles : ThisRun(g).exists /\ ThisRun(g).by_run
    /\ Len(ThisRun("apps.txt").data) + Len(ThisRun("other.txt").data)
           = Len(flathub_components)
    /\ Len(ThisRun("wildcard.txt").data) = Len(wildcards)
    /\ Len(ThisRun("filter.txt").data) = Len(FilterHeader) + Len(filters)

\* C1: no final output file is replaced before all four .new files are
\* completely written, and a run that has aborted on a fatal error has left
\* every final output file as it was before the run.
C1_FinalFilesReplacedLast ==
    /\ (\E f \in FinalFiles : fs[f] # Old) => AllCompletelyWritten
    /\ pc = "error" => \A f \in FinalFiles : fs[f] = Old

\* a run aborts after wildcard.txt.new was written
C1_Witness ==
    /\ pc = "error"
    /\ err.kind = "unknown key"
    /\ fs["wildcard.txt.new"].by_run
    /\ fs["wildcard.txt.new"].data # << >>

UnknownKey == pc = "error" /\ err.kind = "unknown key"

\* C2 as stated: at an unknown-key error no output file, temporary files
\* included, has been created, modified or renamed.
C2_NothingWritten ==
    UnknownKey => \A f \in OutputFiles : ~fs[f].by_run

\* C2, amended: at an unknown-key error no final output file has been
\* replaced and apps.txt.new, other.txt.new and filter.txt.new have not been
\* created; wildcard.txt.new is untouched if the label is in a wildcard.txt
\* and has been written if the label is in an apps.txt or other.txt.
C2_OnlyWildcardNewWritten ==
    UnknownKey =>
        /\ \A f \in FinalFiles : fs[f] = Old
        /\ \A f \in {"apps.txt.new", "other.txt.new", "filter.txt.new"} : fs[f] = Absent
        /\ err.file = "wildcard.txt" => ~fs["wildcard.txt.new"].by_run
        /\ err.file \in {"apps.txt", "other.txt"} =>
               fs["wildcard.txt.new"].by_run /\ Len(fs["wildcard.txt.new"].data) = Len(wildcards)

\* an unknown label in apps.txt is met after wildcard.txt.new was written
C2_Witness ==
    /\ UnknownKey
    /\ err.dir = "input"
    /\ err.file = "apps.txt"
    /\ fs["wildcard.txt.new"].by_run

----------------------------------------------------------------------------
(* Claims about the loader (specification Spec). *)

\* the lines load_components(input_dir) reads, apps.txt then other.txt
InputLines == input_dir.apps \o input_dir.other

SectionsOf(lines, id) ==
    {i \in DOMAIN lines : lines[i].kind = "section" /\ lines[i].id = id}

\* the value of the field in the section that starts at line i: the last
\* line of the section with that label, "" without one
FieldOfSection(lines, i, field_name) ==
    LET later == {j \in DOMAIN lines : j > i /\ lines[j].kind = "section"}
        end == IF later = {} THEN Len(lines) + 1 ELSE Min(later)
        set == {j \in (i + 1)..(end - 1) :
                   /\ lines[j].kind = "field"
                   /\ NormLabel(lines[j].label) = field_name}
    IN  IF set = {} THEN Empty ELSE FieldValue(field_name, lines[Max(set)].value)

ComponentsLoaded ==
    pc \notin {"load_remote", "totals", "wildcards", "write_wildcards",
               "load_components", "error"}

\* C10 as stated: of several sections with the same id, the mapping holds
\* the curated values of the first one.
C10_FirstSectionWins ==
    ComponentsLoaded =>
        \A id \in Keys(input_components) : \A f \in {"comments", "include"} :
            DictGet(input_components, id)[f]
                = FieldOfSection(InputLines, Min(SectionsOf(InputLines, id)), f)

\* C10, amended: of several sections with the same id, the mapping holds
\* the curated values of the last one; the ids of the mapping are unique
\* and are the ids of the sections of the file.
C10_LastSectionWins ==
    ComponentsLoaded =>
        /\ DistinctIds(input_components)
        /\ Keys(input_components)
               = {InputLines[i].id : i \in {j \in DOMAIN InputLines :
                                                InputLines[j].kind = "section"}}
        /\ \A id \in Keys(input_components) : \A f \in {"comments", "include"} :
            DictGet(input_components, id)[f]
                = FieldOfSection(InputLines, Max(SectionsOf(InputLines, id)), f)

\* a file with two sections of the same id and different comments was loaded
C10_Witness ==
    /\ ComponentsLoaded
    /\ \E id \in Keys(input_components) :
          LET set == SectionsOf(InputLines, id) IN
          /\ Cardinality(set) >= 2
          /\ FieldOfSection(InputLines, Min(set), "comments")
                 # FieldOfSection(InputLines, Max(set), "comments")

----------------------------------------------------------------------------
(* Claims about the delta replay (specification SpecDelta).  They are      *)
(* stated where the component of the iteration has gone through lines      *)
(* 432-439 and not yet through the wildcards.                              *)

CuratedFields == {"comments", "include"}

\* C3: for a component with a from-snapshot and a to-snapshot entry, after
\* direct overlay and delta replay each curated field is the to value when
\* the to value differs from the from value, and else the current curated
\* value ("" without a current curated entry).
C3_DeltaPrecedence ==
    pc = "wild" =>
        LET from == DictGet(delta_from_components, Current.id)
            to == DictGet(delta_to_components, Current.id)
            current == DictGet(input_components, Current.id)
        IN  (from.id # NoId /\ to.id # NoId) =>
                \A f \in CuratedFields :
                    Current[f] = IF to[f] # from[f] THEN to[f] ELSE current[f]

\* from "", to "yes", current "no" gives "yes", while the comments, equal
\* in from and to, keep the current value
C3_Witness ==
    /\ pc = "wild"
    /\ DictGet(delta_from_components, Current.id).id # NoId
    /\ DictGet(delta_from_components, Current.id).include = Empty
    /\ DictGet(delta_to_components, Current.id).include = Yes
    /\ DictGet(input_components, Current.id).include = Plain("no")
    /\ DictGet(delta_from_components, Current.id).comments = Empty
    /\ DictGet(delta_to_components, Current.id).comments = Empty
    /\ Current.include = Yes
    /\ Current.comments = Plain("x")

\* C4 as stated: with both delta directories given, a component with a
\* to-snapshot entry and no from-snapshot entry takes the to value of each
\* curated field.
C4_ReplayWithoutBase ==
    (/\ pc = "wild"
     /\ delta_from_dir.given
     /\ delta_to_dir.given
     /\ Current.id \in Keys(delta_to_components)
     /\ Current.id \notin Keys(delta_from_components)) =>
        \A f \in CuratedFields :
            Current[f] = DictGet(delta_to_components, Current.id)[f]

----------------------------------------------------------------------------
(* Claims about the wildcards (specification SpecWild), stated on the step *)
(* that takes the component of the iteration through lines 441-443.        *)

\* the indexes of the wildcards that match the component, in iteration order
Matching(component) ==
    {i \in DOMAIN wildcards : matches(wildcards[i].id, component.id)}

\* C5: one matching wildcard W leaves a non-empty field of the component
\* unchanged and a warning is printed, turns an empty field into "[W.id] y"
\* when its own value y is not empty, and leaves it empty otherwise; the
\* wildcards that do not match change nothing.
C5_WildcardOverlay ==
    [][pc = "wild" =>
        /\ Matching(Current) = {} => (Current' = Current /\ warnings' = warnings)
        /\ Cardinality(Matching(Current)) = 1 =>
              LET w == wildcards[CHOOSE i \in Matching(Current) : TRUE] IN
              \A f \in CuratedFields :
                  /\ Truthy(Current[f]) =>
                        /\ Current'[f] = Current[f]
                        /\ [kind |-> "explicitly specified", id |-> Current.id,
                            other |-> w.id, field |-> f] \in warnings'
                  /\ (~Truthy(Current[f]) /\ Truthy(w[f])) =>
                        Current'[f] = [wc |-> w.id, text |-> w[f].text]
                  /\ (~Truthy(Current[f]) /\ ~Truthy(w[f])) =>
                        Current'[f] = Empty
    ]_vars

\* one wildcard has matched: the empty comments carry its tag and the
\* explicit include is kept with a warning
C5_Witness ==
    /\ pc = "dump"
    /\ Len(wildcards) > 1
    /\ Cardinality(Matching(Current)) = 1
    /\ LET w == wildcards[CHOOSE i \in Matching(Current) : TRUE] IN
       /\ w.id # Current.id
       /\ Current.comments = [wc |-> w.id, text |-> "y"]
       /\ Current.include = Yes
       /\ w.include = Yes
       /\ [kind |-> "explicitly specified", id |-> Current.id,
           other |-> w.id, field |-> "include"] \in warnings

\* C6 as stated: when several matching wildcards have a value for a field
\* that is empty on the component, the field ends with the tagged value of
\* the last matching wildcard in iteration order.
C6_LastWildcardWins ==
    [][pc = "wild" =>
        \A f \in CuratedFields :
            (/\ Cardinality(Matching(Current)) >= 2
             /\ ~Truthy(Current[f])
             /\ \A i \in Matching(Current) : Truthy(wildcards[i][f])) =>
                LET w == wildcards[Max(Matching(Current))]
                IN  Current'[f] = [wc |-> w.id, text |-> w[f].text]
    ]_vars

\* the ids of the allow lines, in the order of the file
\* (the inverse of filter_ref)
IdOfRef(ref) == IF Len(ref) = 1 THEN ref ELSE <<ref[2], ref[4]>>

AllowLines == LET lines == fs["filter.txt.new"].data
              IN  SubSeq(lines, Len(FilterHeader) + 1, Len(lines))

Count(seq, x) == Cardinality({i \in DOMAIN seq : seq[i] = x})

\* C8: filter.txt is the header ending in "deny *", then one allow line for
\* every wildcard with include "yes" and for every component with include
\* "yes" and no other line, each with the bare id or runtime/<prefix>/*/<suffix>,
\* in ascending sort_key order.
C8_FilterDerivation ==
    pc = "rename_apps" =>
        LET lines == fs["filter.txt.new"].data
            ref(id) == IF Len(id) = 1 THEN id
                       ELSE << <<"r", "u", "n", "t", "i", "m", "e">>, id[1], <<"*">>, id[2] >>
            allowed_wildcards == {w \in Keys(wildcards) : DictGet(wildcards, w).include = Yes}
            allowed_components ==
                {c \in Keys(flathub_components) :
                    flathub_components[IndexOf(flathub_components, c)].include = Yes}
            number(id) == (IF id \in allowed_wildcards THEN 1 ELSE 0)
                              + (IF id \in allowed_components THEN 1 ELSE 0)
        IN  /\ \A i \in 1..4 : lines[i].verb = "#"
            /\ lines[5] = [verb |-> "deny", ref |-> << <<"*">> >>]
            /\ \A i \in DOMAIN AllowLines : AllowLines[i].verb = "allow"
            /\ Len(AllowLines) = Cardinality(allowed_wildcards) + Cardinality(allowed_components)
            /\ \A id \in Keys(wildcards) \cup Keys(flathub_components) :
                  Count(AllowLines, [verb |-> "allow", ref |-> ref(id)]) = number(id)
            /\ \A i, j \in DOMAIN AllowLines :
                  i < j => ~TupleLess(sort_key(IdOfRef(AllowLines[j].ref)),
                                      sort_key(IdOfRef(AllowLines[i].ref)))

\* a filter with the lines of a wildcard, of an app and of a runtime
C8_Witness ==
    /\ pc = "rename_apps"
    /\ \E w \in Keys(wildcards) : DictGet(wildcards, w).include = Yes
    /\ \E i, j \in DOMAIN flathub_components :
          /\ flathub_components[i].include = Yes
          /\ flathub_components[j].include = Yes
          /\ Len(flathub_components[i].id) = 1
          /\ Len(flathub_components[j].id) = 2
    /\ Len(AllowLines) >= 3

----------------------------------------------------------------------------
(* Claims about the ranking and the runtimes (specification SpecRank),     *)
(* stated once the loop over the components has ended.                     *)

Apps == {i \in DOMAIN flathub_components : Len(flathub_components[i].id) = 1}

Others == DOMAIN flathub_components \ Apps

\* (-download_count(X), sort_key(X)) < (-download_count(Y), sort_key(Y))
RankedBefore(x, y) ==
    \/ x.download_count > y.download_count
    \/ /\ x.download_count = y.download_count
       /\ TupleLess(sort_key(x.id), sort_key(y.id))

\* the download totals that the statistics of the run give: the counters of
\* the day that carries them
Given ==
    LET refs == stats[WindowDays - 2]
    IN  [ref \in DOMAIN refs |-> refs[ref]["x86_64"][1]]

\* the parts of the ranking claim that do not compare two components:
\* the totals, the partition, the ranks 1..n and the order of the files
RanksAndFiles ==
    /\ \A i \in DOMAIN flathub_components :
          flathub_components[i].download_count =
             TotalOf(Given, flathub_components[i].id)
    /\ \A part \in {Apps, Others} :
          {flathub_components[i].download_rank : i \in part} = 1..Cardinality(part)
    /\ \A name \in {"apps.txt.new", "other.txt.new"} :
          LET part == IF name = "apps.txt.new" THEN Apps ELSE Others
              blocks == fs[name].data
          IN  /\ Len(blocks) = Cardinality(part)
              /\ \A n \in DOMAIN blocks :
                    /\ blocks[n].download_rank = n
                    /\ \E i \in part : flathub_components[i] = blocks[n]

\* C7 as stated: in each partition the ranks are exactly 1..n, the files
\* list the partitions by increasing rank, and X has a smaller rank than Y
\* iff (-download_count(X), sort_key(X)) < (-download_count(Y), sort_key(Y)).
C7_RankIffKeyLess ==
    pc = "write_filter" =>
        /\ RanksAndFiles
        /\ \A part \in {Apps, Others} : \A i, j \in part :
              LET x == flathub_components[i]
                  y == flathub_components[j]
              IN  x.download_rank < y.download_rank <=> RankedBefore(x, y)

\* C7, amended: as stated, except that X has a smaller rank than Y iff the
\* key of X is smaller than the key of Y, or the two keys are equal (equal
\* totals and ids that differ only in the case of their letters) and X comes
\* before Y in the listing of the remote.
C7_RankByKeyThenListing ==
    pc = "write_filter" =>
        /\ RanksAndFiles
        /\ \A part \in {Apps, Others} : \A i, j \in part :
              LET x == flathub_components[i]
                  y == flathub_components[j]
              IN  x.download_rank < y.download_rank <=>
                      \/ RankedBefore(x, y)
                      \/ (~RankedBefore(y, x) /\ i < j)

\* three apps are ranked: the one with the larger total first, then two
\* ids that differ only in case, in the order of the listing
C7_Witness ==
    /\ pc = "write_filter"
    /\ Len(fs["apps.txt.new"].data) = 3
    /\ fs["apps.txt.new"].data[1].download_count > fs["apps.txt.new"].data[2].download_count
    /\ fs["apps.txt.new"].data[2].id = id_A
    /\ fs["apps.txt.new"].data[3].id = id_a

\* C9 as stated: for an included component that declares a runtime, the
\* "required runtime not included" warning is printed iff the runtime is
\* not in the primary remote or its include, after its own reconciliation,
\* is not "yes"; the component is added to the allow list in both cases.
C9_RuntimeWarningIff ==
    pc = "write_filter" =>
        \A i \in DOMAIN flathub_components :
            LET c == flathub_components[i] IN
            (c.include = Yes /\ c.runtime # NoId) =>
                /\ \E n \in DOMAIN filters : filters[n] = c.id
                /\ [kind |-> "runtime not included", id |-> c.id,
                    other |-> c.runtime, field |-> ""] \in warnings
                   <=> \/ c.runtime \notin Keys(flathub_components)
                       \/ DictGet(flathub_components, c.runtime).include # Yes

----------------------------------------------------------------------------
(* Claims about the statistics window (specification SpecStats). *)

\* get_flathub_totals has returned
TotalsComputed == pc \notin {"load_remote", "totals", "error"}

\* today, as the first reading of the clock gives it
Today == DayOf(clock.first)

\* the sum of counters[0] - counters[1] over the snapshots of the days and
\* over all architectures
RECURSIVE WindowSum(_, _)
WindowSum(days, ref) ==
    IF days = {} THEN 0
    ELSE LET d == CHOOSE x \in days : TRUE
             refs == stats[d]
             archs == IF ref \in DOMAIN refs THEN DOMAIN refs[ref] ELSE {}
             RECURSIVE Over(_)
             Over(as) == IF as = {} THEN 0
                         ELSE LET a == CHOOSE x \in as : TRUE
                              IN  refs[ref][a][1] - refs[ref][a][2] + Over(as \ {a})
         IN  Over(archs) + WindowSum(days \ {d}, ref)

\* C11: once the totals are computed, exactly one snapshot has been read for
\* each of the 30 days Today-30 .. Today-1 and for no other day, and the total
\* of every ref is the sum over those snapshots and all architectures of
\* counters[0] - counters[1], which is 0 for a ref without statistics.
C11_ThirtyDaysEndingYesterday ==
    TotalsComputed =>
        LET window == (Today - 30)..(Today - 1)
        IN  /\ Len(stats_read) = 30
            /\ \A d \in window : Cardinality({i \in DOMAIN stats_read : stats_read[i] = d}) = 1
            /\ \A i \in DOMAIN stats_read : stats_read[i] \in window
            /\ \A ref \in {id_a, id_b, id_p1} :
                  TotalOf(flathub_totals, ref) = WindowSum(window, ref)

====
